---- MODULE Spec2Model ----
(***************************************************************************)
(* Pappa Praat (src/main.py): the recording / transcription pipeline of    *)
(* DictationApp.  The UI thread runs the event handlers                    *)
(* (toggle_recording, on_model_change) and the 100 ms poll                 *)
(* (check_transcription_queue); background threads run load_model,         *)
(* record_audio and process_audio.  Every thread step below is one read or *)
(* write of the shared attributes of the DictationApp object.              *)
(*                                                                         *)
(* self.language is only passed on to model.transcribe, whose result is    *)
(* any text here, so it is not part of the state.                          *)
(*                                                                         *)
(* Texts are sequences of tokens: " " and "\n" are whitespace, "Error:" is *)
(* the six characters that check_transcription_queue tests for, any other  *)
(* token is ordinary text.                                                 *)
(***************************************************************************)
EXTENDS Integers, Sequences, FiniteSets, TLC

\* ---- bounds of the model ----
MaxSessions == 2        \* capture streams opened (successful start_recording)
MaxChunks == 1          \* chunks one capture stream delivers
MaxModelChanges == 1    \* effective on_model_change calls
MaxStops == 1           \* process_audio threads direct stop_recording() calls start

\* ---- values ----
\* two of the five sizes the model combobox offers
ModelSizes == {"tiny", "base"}
\* what model.transcribe can return in result["text"]
RawTexts == { <<" ", "a">>, <<" ", "Error:", "a">> }
\* str(e) of the exceptions process_audio can catch
ExceptionMsg == <<"e">>      \* a failed write of the WAV file, a failed inference
NoModelMsg == <<"n">>        \* self.model is None: no attribute 'transcribe'

VARIABLES
    recording,            \* self.recording
    frames,               \* self.frames: the list self.frames is bound to now
    stream,               \* self.stream: 0 is None, else the id of a stream
    openStreams,          \* ids of the streams that are open
    delivered,            \* delivered[s]: chunks stream s has returned
    model,                \* self.model: "None" or the size of the instance
    model_size,           \* self.model_size
    transcription_queue,  \* self.transcription_queue
    status_label,         \* text of self.status_label
    record_btn,           \* text of self.record_btn
    text_area,            \* content of self.text_area
    dialog,               \* the modal messagebox the UI thread has open
    pollPc,               \* check_transcription_queue: "scheduled" | "draining"
    loaders,              \* load_model threads, in start order
    captures,             \* record_audio threads, in start order
    transcribers,         \* process_audio threads, in start order
    sessionChunks,        \* history: chunks appended during each session
    modelChanges          \* effective on_model_change calls so far

vars == << recording, frames, stream, openStreams, delivered, model, model_size,
           transcription_queue, status_label, record_btn, text_area,
           dialog, pollPc, loaders, captures, transcribers, sessionChunks,
           modelChanges >>

audioVars == << recording, frames, stream, openStreams, delivered, captures,
                sessionChunks >>
modelVars == << model, model_size, loaders, modelChanges >>
uiVars == << status_label, record_btn, text_area, dialog >>

\* ---- text helpers ----
IsSpace(c) == c \in {" ", "\n"}

RECURSIVE LStrip(_)
LStrip(s) == IF s # <<>> /\ IsSpace(Head(s)) THEN LStrip(Tail(s)) ELSE s

RECURSIVE RStrip(_)
RStrip(s) ==
    IF s # <<>> /\ IsSpace(s[Len(s)]) THEN RStrip(SubSeq(s, 1, Len(s) - 1)) ELSE s

\* str.strip()
Strip(s) == RStrip(LStrip(s))

\* transcription.startswith("Error:")
StartsWithError(s) == s # <<>> /\ Head(s) = "Error:"

\* f"Error: {str(e)}"
ErrorText(msg) == <<"Error:", " ">> \o msg

LoadingStatus(size) ==
    IF size = "tiny" THEN "Loading tiny model..." ELSE "Loading base model..."

\* ---- initial state: DictationApp.__init__ has returned ----
Init ==
    /\ recording = FALSE
    /\ frames = <<>>
    /\ stream = 0
    /\ openStreams = {}
    /\ delivered = <<>>
    /\ model = "None"
    /\ model_size = "base"
    /\ transcription_queue = <<>>
    /\ status_label = "Ready to record"
    /\ record_btn = "Start Recording"
    /\ text_area = <<>>
    /\ dialog = "none"
    /\ pollPc = "scheduled"
    /\ loaders = << [pc |-> "start", size |-> "None"] >>
    /\ captures = <<>>
    /\ transcribers = <<>>
    /\ sessionChunks = <<>>
    /\ modelChanges = 0

\* ---- model loading: load_whisper_model / load_model threads ----

\* load_whisper_model(): start a load_model thread
SpawnLoader(ls) == Append(ls, [pc |-> "start", size |-> "None"])

\* load_model, up to the call whisper.load_model(self.model_size): the status
\* is set and self.model_size is read
LoadModelStart(i) ==
    /\ loaders[i].pc = "start"
    /\ status_label' = LoadingStatus(model_size)
    /\ loaders' = [loaders EXCEPT ![i] = [pc |-> "loading", size |-> model_size]]
    /\ UNCHANGED << audioVars, model, model_size, modelChanges, transcription_queue, record_btn, text_area, dialog, pollPc,
                    transcribers >>

\* whisper.load_model returns: self.model = <instance of the size read>
LoadModelDone(i) ==
    /\ loaders[i].pc = "loading"
    /\ model' = loaders[i].size
    /\ status_label' = "Model loaded - Ready to record"
    /\ loaders' = [loaders EXCEPT ![i].pc = "done"]
    /\ UNCHANGED << audioVars, model_size, modelChanges, transcription_queue, record_btn, text_area, dialog, pollPc,
                    transcribers >>

\* whisper.load_model raises: the loader thread shows the error box and sets
\* the status; self.model is not assigned
LoadModelFail(i) ==
    /\ loaders[i].pc = "loading"
    /\ status_label' = "Model loading failed"
    /\ loaders' = [loaders EXCEPT ![i].pc = "done"]
    /\ UNCHANGED << audioVars, model, model_size, modelChanges, transcription_queue, record_btn, text_area, dialog, pollPc,
                    transcribers >>

\* the UI thread is in the main loop: no handler running, no modal box open
UIReady == pollPc = "scheduled" /\ dialog = "none"

\* on_model_change with the combobox set to new_model
on_model_change(new_model) ==
    /\ UIReady
    /\ IF new_model # model_size
       THEN /\ modelChanges < MaxModelChanges
            /\ model_size' = new_model
            /\ model' = "None"
            /\ loaders' = SpawnLoader(loaders)
            /\ modelChanges' = modelChanges + 1
       ELSE UNCHANGED modelVars
    /\ UNCHANGED << audioVars, transcription_queue, uiVars, pollPc,
                    transcribers >>

\* the user closes a box opened by start_recording
DismissDialog ==
    /\ pollPc = "scheduled"
    /\ dialog # "none"
    /\ dialog' = "none"
    /\ UNCHANGED << audioVars, modelVars, transcription_queue,
                    status_label, record_btn, text_area, pollPc, transcribers >>

\* ---- recording: start_recording, record_audio, stop_recording ----

\* self.audio.open(...) succeeded: the session of the new stream begins
OpenedSession ==
    LET s == Len(captures) + 1 IN
    /\ Len(captures) < MaxSessions
    /\ frames' = <<>>
    /\ stream' = s
    /\ openStreams' = openStreams \cup {s}
    /\ delivered' = Append(delivered, 0)
    /\ sessionChunks' = Append(sessionChunks, <<>>)
    /\ recording' = TRUE
    /\ record_btn' = "Stop Recording"
    /\ status_label' = "Recording... Click stop when finished"
    /\ captures' = Append(captures, [pc |-> "loop", rs |-> 0])
    /\ UNCHANGED << text_area, dialog >>

\* OpenFailed with self.recording = True moved above the call of open
OpenFailed_FlagSetFirst ==
    /\ frames' = <<>>
    /\ recording' = TRUE
    /\ dialog' = "error_start"
    /\ UNCHANGED << stream, openStreams, delivered, captures, sessionChunks,
                    status_label, record_btn, text_area >>

\* self.audio.open(...) raised: self.frames is already reset, the error box
\* is shown
OpenFailed ==
    /\ frames' = <<>>
    /\ dialog' = "error_start"
    /\ UNCHANGED << recording, stream, openStreams, delivered, captures,
                    sessionChunks, status_label, record_btn, text_area >>

\* start_recording without the test of self.model
start_recording_NoModelCheck ==
    /\ OpenedSession \/ OpenFailed
    /\ UNCHANGED << modelVars, transcription_queue, pollPc, transcribers >>

start_recording ==
    /\ IF model = "None"
       THEN /\ dialog' = "warning_model"
            /\ UNCHANGED << audioVars, status_label, record_btn, text_area >>
       ELSE OpenedSession \/ OpenFailed
    /\ UNCHANGED << modelVars, transcription_queue, pollPc,
                    transcribers >>

\* threading.Thread(target=self.process_audio).start() in stop_recording
SpawnTranscriber(ts) ==
    Append(ts, [pc |-> "write", session |-> IF recording THEN stream ELSE 0])

stop_recording ==
    /\ recording' = FALSE
    /\ record_btn' = "Start Recording"
    /\ status_label' = "Processing audio..."
    /\ \/ /\ stream = 0
          /\ transcribers' = SpawnTranscriber(transcribers)
          /\ UNCHANGED openStreams
       \/ /\ stream \in openStreams
          /\ openStreams' = openStreams \ {stream}
          /\ transcribers' = SpawnTranscriber(transcribers)
       \* the stream is closed already: close() again returns or raises
       \/ /\ stream # 0 /\ stream \notin openStreams
          /\ \/ transcribers' = SpawnTranscriber(transcribers)
             \/ UNCHANGED transcribers
          /\ UNCHANGED openStreams
    /\ UNCHANGED << frames, stream, delivered, captures, sessionChunks,
                    modelVars, transcription_queue, text_area, dialog,
                    pollPc >>

\* the record button
toggle_recording ==
    /\ UIReady
    /\ IF ~recording THEN start_recording ELSE stop_recording

\* record_audio: the test of "while self.recording" and, when it holds, the
\* evaluation of self.stream for the read
RecordAudioLoop(w) ==
    /\ captures[w].pc = "loop"
    /\ captures' = [captures EXCEPT ![w] =
                      IF recording THEN [pc |-> "read", rs |-> stream]
                      ELSE [pc |-> "done", rs |-> 0]]
    /\ UNCHANGED << recording, frames, stream, openStreams, delivered,
                    sessionChunks, modelVars, transcription_queue,
                    uiVars, pollPc, transcribers >>

\* the read returns a chunk, which is appended to the list self.frames is
\* bound to now.  A read that was in progress when the stream was closed may
\* still return its chunk.
RecordAudioRead(w) ==
    LET s == captures[w].rs
        chunk == << s, delivered[s] + 1 >> IN
    /\ captures[w].pc = "read"
    /\ delivered[s] < MaxChunks
    /\ delivered' = [delivered EXCEPT ![s] = @ + 1]
    /\ frames' = Append(frames, chunk)
    /\ sessionChunks' = IF recording
                        THEN [sessionChunks EXCEPT ![stream] = Append(@, chunk)]
                        ELSE sessionChunks
    /\ captures' = [captures EXCEPT ![w] = [pc |-> "loop", rs |-> 0]]
    /\ UNCHANGED << recording, stream, openStreams, modelVars, transcription_queue, uiVars, pollPc, transcribers >>

\* RecordAudioError with the handler also clearing self.recording
RecordAudioError_ClearsFlag(w) ==
    /\ captures[w].pc = "read"
    /\ captures' = [captures EXCEPT ![w] = [pc |-> "done", rs |-> 0]]
    /\ recording' = FALSE
    /\ UNCHANGED << frames, stream, openStreams, delivered, sessionChunks,
                    modelVars, transcription_queue, uiVars, pollPc, transcribers >>

\* RecordAudioError with the handler also discarding the chunks read so far
RecordAudioError_DropsFrames(w) ==
    /\ captures[w].pc = "read"
    /\ captures' = [captures EXCEPT ![w] = [pc |-> "done", rs |-> 0]]
    /\ frames' = <<>>
    /\ UNCHANGED << recording, stream, openStreams, delivered, sessionChunks,
                    modelVars, transcription_queue, uiVars, pollPc, transcribers >>

\* the read raises (a device error, or the stream was closed): the loop ends
RecordAudioError(w) ==
    /\ captures[w].pc = "read"
    /\ captures' = [captures EXCEPT ![w] = [pc |-> "done", rs |-> 0]]
    /\ UNCHANGED << recording, frames, stream, openStreams, delivered,
                    sessionChunks, modelVars, transcription_queue,
                    uiVars, pollPc, transcribers >>

\* ---- transcription: process_audio threads ----

\* self.transcription_queue.put(text) by thread t; "branch" records which
\* put of process_audio it was (line 212: "ok", line 216: "err")
Put(q, t, text, branch) == Append(q, [text |-> text, by |-> t, branch |-> branch])

\* the history of a session is dropped once its audio has been written
Forget(h, s) == IF s \in DOMAIN h THEN [h EXCEPT ![s] = <<>>] ELSE h

\* ProcessAudioWrite with the write outside the try: the exception ends the
\* thread and nothing is put
ProcessAudioWrite_Uncaught(t) ==
    /\ transcribers[t].pc = "write"
    /\ \/ transcribers' = [transcribers EXCEPT ![t].pc = "transcribe"]
       \/ transcribers' = [transcribers EXCEPT ![t].pc = "done"]
    /\ sessionChunks' = Forget(sessionChunks, transcribers[t].session)
    /\ UNCHANGED << recording, frames, stream, openStreams, delivered, captures,
                    modelVars, uiVars, pollPc, transcription_queue >>

\* the WAV file is written, or the write raises.  What is written is
\* b''.join(self.frames): the value of frames at this step.
ProcessAudioWrite(t) ==
    /\ transcribers[t].pc = "write"
    /\ \/ /\ transcribers' = [transcribers EXCEPT ![t].pc = "transcribe"]
          /\ UNCHANGED transcription_queue
       \/ /\ transcribers' = [transcribers EXCEPT ![t].pc = "done"]
          /\ transcription_queue' =
                Put(transcription_queue, t, ErrorText(ExceptionMsg), "err")
    /\ sessionChunks' = Forget(sessionChunks, transcribers[t].session)
    /\ UNCHANGED << recording, frames, stream, openStreams, delivered, captures,
                    modelVars, uiVars, pollPc >>

\* self.model.transcribe(...): with self.model None the call raises; else it
\* returns a text, which is stripped and put, or raises
ProcessAudioTranscribe(t) ==
    /\ transcribers[t].pc = "transcribe"
    /\ transcribers' = [transcribers EXCEPT ![t].pc = "done"]
    /\ IF model = "None"
       THEN transcription_queue' =
                Put(transcription_queue, t, ErrorText(NoModelMsg), "err")
       ELSE \/ \E raw \in RawTexts :
                 transcription_queue' =
                     Put(transcription_queue, t, Strip(raw), "ok")
            \/ transcription_queue' =
                   Put(transcription_queue, t, ErrorText(ExceptionMsg), "err")
    /\ UNCHANGED << audioVars, modelVars, uiVars, pollPc >>

\* ---- the poll: check_transcription_queue ----

\* the text area after a transcription is added to it
InsertTranscription(area, transcription) ==
    LET current_text == Strip(area \o <<"\n">>) IN
    IF current_text # <<>>
    THEN area \o <<"\n", "\n">> \o transcription
    ELSE area \o transcription

\* the timer fires
PollStart ==
    /\ UIReady
    /\ pollPc' = "draining"
    /\ UNCHANGED << audioVars, modelVars, transcription_queue, uiVars,
                    transcribers >>

\* PollGet taking the newest entry instead of the oldest
PollGet_TakesLast ==
    /\ pollPc = "draining"
    /\ dialog = "none"
    /\ transcription_queue # <<>>
    /\ LET transcription == transcription_queue[Len(transcription_queue)] IN
       /\ transcription_queue' =
              SubSeq(transcription_queue, 1, Len(transcription_queue) - 1)
       /\ IF StartsWithError(transcription.text)
          THEN /\ dialog' = "error_transcription"
               /\ UNCHANGED << text_area, status_label >>
          ELSE /\ text_area' = InsertTranscription(text_area, transcription.text)
               /\ status_label' =
                      "Transcription complete - Ready for next recording"
               /\ UNCHANGED dialog
    /\ UNCHANGED << audioVars, modelVars, record_btn, pollPc,
                    transcribers >>

\* get_nowait() returns an entry
PollGet ==
    /\ pollPc = "draining"
    /\ dialog = "none"
    /\ transcription_queue # <<>>
    /\ LET transcription == Head(transcription_queue) IN
       /\ transcription_queue' = Tail(transcription_queue)
       /\ IF StartsWithError(transcription.text)
          THEN /\ dialog' = "error_transcription"
               /\ UNCHANGED << text_area, status_label >>
          ELSE /\ text_area' = InsertTranscription(text_area, transcription.text)
               /\ status_label' =
                      "Transcription complete - Ready for next recording"
               /\ UNCHANGED dialog
    /\ UNCHANGED << audioVars, modelVars, record_btn, pollPc,
                    transcribers >>

\* the "Transcription Error" box is closed: the status is set, the loop goes on
PollErrorShown ==
    /\ pollPc = "draining"
    /\ dialog = "error_transcription"
    /\ dialog' = "none"
    /\ status_label' = "Transcription failed"
    /\ UNCHANGED << audioVars, modelVars, transcription_queue,
                    record_btn, text_area, pollPc, transcribers >>

\* PollEmpty without the call root.after(100, ...): the poll is not scheduled
PollEmpty_NoReschedule ==
    /\ pollPc = "draining"
    /\ dialog = "none"
    /\ transcription_queue = <<>>
    /\ pollPc' = "stopped"
    /\ UNCHANGED << audioVars, modelVars, transcription_queue, uiVars,
                    transcribers >>

\* get_nowait() raises queue.Empty: the next poll is scheduled
PollEmpty ==
    /\ pollPc = "draining"
    /\ dialog = "none"
    /\ transcription_queue = <<>>
    /\ pollPc' = "scheduled"
    /\ UNCHANGED << audioVars, modelVars, transcription_queue, uiVars,
                    transcribers >>

\* ---- the program: the window's handlers, the poll and the threads ----

\* the handlers and threads other than the record button and the reads that
\* return a chunk
OthersNoChunk ==
    \/ \E m \in ModelSizes : on_model_change(m)
    \/ DismissDialog
    \/ PollStart
    \/ PollGet
    \/ PollErrorShown
    \/ PollEmpty
    \/ \E i \in DOMAIN loaders : LoadModelStart(i)
    \/ \E i \in DOMAIN loaders : LoadModelDone(i)
    \/ \E i \in DOMAIN loaders : LoadModelFail(i)
    \/ \E w \in DOMAIN captures : RecordAudioLoop(w)
    \/ \E w \in DOMAIN captures : RecordAudioError(w)
    \/ \E t \in DOMAIN transcribers : ProcessAudioWrite(t)
    \/ \E t \in DOMAIN transcribers : ProcessAudioTranscribe(t)

\* the handlers and threads other than the record button
Others ==
    \/ OthersNoChunk
    \/ \E w \in DOMAIN captures : RecordAudioRead(w)

Next == toggle_recording \/ Others

Spec == Init /\ [][Next]_vars

\* ---- the methods called directly, as the interface of the pipeline ----

\* start_recording() called without going through toggle_recording
CallStartRecording ==
    /\ UIReady
    /\ start_recording

\* stop_recording() called without going through toggle_recording
CallStopRecording ==
    /\ UIReady
    /\ Len(transcribers) < MaxStops
    /\ stop_recording

NextAPI == CallStartRecording \/ CallStopRecording \/ Others

SpecAPI == Init /\ [][NextAPI]_vars

\* ---- helpers of the properties ----

\* a step starts a capture worker / opens a stream / dispatches a transcriber
CaptureStarted == Len(captures') > Len(captures)
StreamOpened == openStreams' \ openStreams # {}
TranscriberDispatched == Len(transcribers') > Len(transcribers)
\* a step puts an entry in the queue
EntryPut == Len(transcription_queue') > Len(transcription_queue)
\* a step takes an entry from the queue
EntryTaken == Len(transcription_queue') < Len(transcription_queue)
\* transcriber t ends in this step
Finishes(t) == transcribers[t].pc # "done" /\ transcribers'[t].pc = "done"

\* ---- C1 ----
\* C1: start_recording() with no model instance loaded is rejected: the
\* record button pressed while Idle with self.model None shows the warning and
\* leaves recording, frames, the streams and the workers as they were; no step
\* taken while self.model is None starts a recording, opens a stream or
\* starts a capture worker, and the warning is only shown with no model.
C1_StartRejectedWithoutModel ==
    [][ /\ (toggle_recording /\ ~recording /\ model = "None"
              => /\ dialog' = "warning_model"
                 /\ UNCHANGED << recording, frames, stream, openStreams,
                                 delivered, captures, transcribers >>)
        /\ (model = "None"
              => /\ ~(~recording /\ recording')
                 /\ ~CaptureStarted
                 /\ ~StreamOpened
                 /\ stream' = stream)
        /\ (dialog = "none" /\ dialog' = "warning_model" => model = "None")
      ]_vars

\* a start was rejected: the warning is open, nothing was started
C1_Witness ==
    /\ dialog = "warning_model"
    /\ model = "None"
    /\ ~recording
    /\ captures = <<>>
    /\ openStreams = {}

\* ---- C2 ----
\* C2: start_recording() while Recording is a no-op: while the state is
\* Recording no step opens a second stream, starts a second capture worker or
\* drops the chunks buffered so far.
C2_SecondStartIsNoOp ==
    [][ recording
          => /\ ~StreamOpened
             /\ ~CaptureStarted
             /\ (frames # <<>> => frames' # <<>>)
      ]_vars

\* ---- C3 ----
\* C3: stop_recording() while not Recording is a no-op: while the state is
\* not Recording no step dispatches a transcription worker, so no result is
\* pushed for a session that does not exist.
C3_StopWhenIdleIsNoOp ==
    [][ ~recording => ~TranscriberDispatched ]_vars

\* ---- C4 ----
\* C4: every process_audio run pushes exactly one entry, in the step it ends
\* with, and nothing before or after.  When the write of the artifact fails,
\* when self.model is None at the call of transcribe, or when the inference
\* fails, the entry is the one of the except branch, an "Error: ..." text;
\* otherwise it is the text the model returned, stripped, put by the try
\* branch.
C4_OneResultPerRun ==
    [][ \A t \in DOMAIN transcribers :
          LET last == transcription_queue'[Len(transcription_queue')]
              pushed == EntryPut /\ last.by = t IN
          /\ Finishes(t) <=> pushed
          /\ pushed =>
               /\ transcription_queue' = Append(transcription_queue, last)
               /\ (transcribers[t].pc = "write" \/ model = "None")
                     => last.branch = "err"
               /\ last.branch = "err" => StartsWithError(last.text)
               /\ last.branch = "ok" =>
                     /\ \E raw \in RawTexts : last.text = Strip(raw)
                     /\ last.text = <<>> \/
                           (~IsSpace(Head(last.text))
                              /\ ~IsSpace(last.text[Len(last.text)]))
      ]_vars

\* the model was changed during the recording: the transcription worker
\* found self.model None and its one entry is the error
C4_Witness ==
    /\ Len(transcribers) = 1
    /\ transcribers[1].pc = "done"
    /\ model = "None"
    /\ transcription_queue =
          << [text |-> ErrorText(NoModelMsg), by |-> 1, branch |-> "err"] >>

\* ---- C5 ----
\* C5: the results of back-to-back sessions reach the queue in the order in
\* which the sessions were stopped: when the result of a session is queued,
\* every session stopped before it has pushed its result already.
C5_ResultsInStopOrder ==
    \A i \in DOMAIN transcription_queue :
        \A t \in DOMAIN transcribers :
            t < transcription_queue[i].by => transcribers[t].pc = "done"

\* ---- C6 ----
\* C6: what a transcription worker writes to its session's artifact is
\* exactly the chunks appended during that session, in append order.
C6_ArtifactIsSessionAudio ==
    [][ \A t \in DOMAIN transcribers :
          (transcribers[t].pc = "write" /\ transcribers'[t].pc = "transcribe")
             => /\ transcribers[t].session \in DOMAIN sessionChunks
                /\ frames = sessionChunks[transcribers[t].session]
      ]_vars

\* ---- C7 ----
\* C7: entries leave the queue only in a poll, one at a time and from the
\* head; the entry taken is applied in that step (an ordinary text is added
\* to the transcript after the texts before it, an error text opens the error
\* box and leaves the transcript alone); the transcript changes in no other
\* step; a poll ends only on an empty queue, and starting or ending a poll
\* changes neither the queue, the transcript, the status nor the box.
C7_PollDrainsInOrder ==
    [][ /\ EntryTaken =>
             LET e == Head(transcription_queue) IN
             /\ pollPc = "draining" /\ pollPc' = "draining"
             /\ transcription_queue' = Tail(transcription_queue)
             /\ IF StartsWithError(e.text)
                THEN dialog' = "error_transcription" /\ text_area' = text_area
                ELSE /\ \E sep \in { <<>>, <<"\n", "\n">> } :
                          text_area' = text_area \o sep \o e.text
                     /\ dialog' = dialog
        /\ text_area' # text_area => EntryTaken
        /\ (pollPc = "draining" /\ pollPc' = "scheduled")
              => transcription_queue = <<>>
        /\ pollPc' # pollPc
              => UNCHANGED << transcription_queue, text_area, status_label,
                              dialog >>
      ]_vars

\* a poll in progress: it has added the first transcription and the second
\* entry is still queued
C7_Witness ==
    /\ pollPc = "draining"
    /\ text_area = <<"a">>
    /\ Len(transcription_queue) = 1
    /\ transcription_queue[1].by = 2

\* ---- C8 ----
\* C8: the recording state changes only in start_recording and
\* stop_recording: it becomes Recording only in a step of the UI thread that
\* opens a stream and starts a capture worker, it becomes Idle only in a step
\* of the UI thread that dispatches a transcription worker; pressing the
\* button while Recording always gives Idle, opening a stream always gives
\* Recording; no step of a capture worker, a transcription worker, a loader
\* or the poll changes it.
C8_RecordingStateMachine ==
    [][ /\ (~recording /\ recording')
              => UIReady /\ model # "None" /\ StreamOpened /\ CaptureStarted
        /\ (recording /\ ~recording')
              => UIReady /\ TranscriberDispatched
        /\ (toggle_recording /\ recording) => ~recording'
        /\ StreamOpened => recording'
        /\ recording' # recording
              => /\ transcription_queue' = transcription_queue
                 /\ pollPc' = pollPc
                 /\ loaders' = loaders
                 /\ \A w \in DOMAIN captures : captures'[w] = captures[w]
                 /\ \A t \in DOMAIN transcribers :
                        transcribers'[t] = transcribers[t]
      ]_vars

\* the capture loop of the current session has ended on a read error and a
\* transcription of an earlier session has ended: the state is still Recording
C8_Witness ==
    /\ recording
    /\ stream = 2
    /\ captures[2].pc = "done"
    /\ transcribers[1].pc = "done"

\* ---- C9 ----
\* C9: when opening the stream fails, the error box is shown in the same step
\* of the UI thread, the state stays Idle, no stream is opened and no capture
\* worker started; while the box is open the model stays loaded, so the next
\* start_recording() is not blocked by the failure.
C9_OpenFailureIsRecoverable ==
    /\ [][ /\ (dialog = "none" /\ dialog' = "error_start")
                 => /\ UIReady /\ model # "None"
                    /\ ~recording /\ ~recording'
                    /\ ~StreamOpened /\ ~CaptureStarted
                    /\ UNCHANGED << stream, openStreams, captures, model >>
           /\ (toggle_recording /\ ~recording /\ model # "None"
                 /\ ~StreamOpened)
                 => dialog' = "error_start" /\ ~recording'
         ]_vars
    /\ [](dialog = "error_start" => ~recording /\ model # "None")

\* a start failed after an earlier session: the box is open, the state Idle
C9_Witness ==
    /\ dialog = "error_start"
    /\ ~recording
    /\ Len(captures) = 1
    /\ openStreams = {}

\* ---- C10 ----
\* C10: whenever self.model is not None, it is the instance loaded for the
\* size self.model_size selects.
C10_ModelMatchesSelection ==
    model # "None" => model = model_size

\* ---- C11 ----
\* loader i's call whisper.load_model raises in this step
LoadFails(i) ==
    /\ loaders[i].pc = "loading"
    /\ loaders'[i].pc = "done"
    /\ status_label' = "Model loading failed"

\* C11: a failed model load leaves the handle not ready: in the step in which
\* a load fails the status reports the failure and self.model is None after
\* it, so that a start_recording() after the failure is rejected until a later
\* load succeeds.
C11_FailedLoadLeavesNoModel ==
    [][ \A i \in DOMAIN loaders : LoadFails(i) => model' = "None" ]_vars

\* ---- C13 ----
\* C13: a chunk is appended to the buffer only while the session is recording:
\* once stop_recording() has set recording False, no step makes self.frames
\* longer.
C13_NoAppendAfterStop ==
    [][ Len(frames') > Len(frames) => recording ]_vars

\* ---- C14 ----
\* process_audio threads that have not returned
ActiveTranscribers == { t \in DOMAIN transcribers : transcribers[t].pc # "done" }

\* C14: at most one transcription worker is active at any time.
C14_OneTranscriberAtATime == Cardinality(ActiveTranscribers) <= 1

\* ---- C15 ----
\* load_model threads that have not returned
ActiveLoaders == { i \in DOMAIN loaders : loaders[i].pc # "done" }

\* C15: at most one model load is in flight at any time.
C15_OneLoadAtATime == Cardinality(ActiveLoaders) <= 1

\* ---- C16 ----
\* C16: a capture stream is never closed while a capture worker is inside a
\* read on it, and no capture worker reads from a closed stream: a worker
\* inside self.stream.read is always reading an open stream.
C16_NeverClosedMidRead ==
    \A w \in DOMAIN captures :
        captures[w].pc = "read" => captures[w].rs \in openStreams

\* ---- C17 ----
\* a step of a background thread: a load_model, record_audio or process_audio
\* thread that exists moves on
WorkerStep ==
    \/ \E i \in DOMAIN loaders : loaders'[i] # loaders[i]
    \/ \E w \in DOMAIN captures : captures'[w] # captures[w]
    \/ \E t \in DOMAIN transcribers : transcribers'[t] # transcribers[t]

\* C17: the status text, the record button, the transcript text and the boxes
\* are changed by the UI thread only: no step of a background thread changes
\* any of them.
C17_OnlyUIThreadMutatesUI ==
    [][ WorkerStep => UNCHANGED uiVars ]_vars

\* ---- C19 ----
\* the text is appended to the transcript, after a separator or none
AppendedToTranscript(text) ==
    /\ \E sep \in { <<>>, <<"\n", "\n">> } : text_area' = text_area \o sep \o text
    /\ dialog' = dialog

\* the text is shown in the "Transcription Error" box, the transcript is kept
ShownAsError == dialog' = "error_transcription" /\ text_area' = text_area

\* C19: the poll treats every queue entry as the worker produced it: an entry
\* put by the success branch of process_audio is appended to the transcript,
\* whatever its text, and only an entry put by the except branch is shown as
\* an error.
C19_ClassifiedAsProduced ==
    [][ EntryTaken =>
          LET e == Head(transcription_queue) IN
          IF e.branch = "ok" THEN AppendedToTranscript(e.text)
          ELSE ShownAsError ]_vars

\* ---- C20 ----
\* capture worker w evaluates self.stream and enters a read in this step
EntersRead(w) == captures[w].pc = "loop" /\ captures'[w].pc = "read"

\* capture worker w appends the chunk it read in this step
Appends(w) == captures[w].pc = "read" /\ Len(frames') > Len(frames)

\* C20: only the capture worker of the latest session reads and appends: the
\* worker of an earlier session never enters a read (it would be on the new
\* session's stream) and never appends (it would be to the new session's
\* buffer) once a later session has been started.
C20_OnlyLatestWorkerCaptures ==
    [][ \A w \in DOMAIN captures :
            EntersRead(w) \/ Appends(w) => w = stream ]_vars

\* ---- C18 ----
\* the read of capture worker w raises in this step
ReadFails(w) == captures[w].pc = "read" /\ captures'[w].pc = "done"

\* the capture loop of the session being recorded has ended on a failed read
CaptureFailedInSession ==
    recording /\ stream \in DOMAIN captures /\ captures[stream].pc = "done"

Fairness ==
    /\ \A t \in 1..MaxSessions :
          /\ WF_vars(t \in DOMAIN transcribers /\ ProcessAudioWrite(t))
          /\ WF_vars(t \in DOMAIN transcribers /\ ProcessAudioTranscribe(t))
    /\ SF_vars(PollStart)
    /\ WF_vars(PollGet)
    /\ WF_vars(PollEmpty)
    /\ WF_vars(PollErrorShown)
    /\ WF_vars(DismissDialog)

\* the window with a device that delivers no chunk: what self.frames holds
\* has no part in what process_audio and the poll do next
NextLive == toggle_recording \/ OthersNoChunk

SpecLive == Init /\ [][NextLive]_vars /\ Fairness

\* the entry of process_audio thread t has been put and taken by a poll
Applied(t) ==
    /\ t \in DOMAIN transcribers
    /\ transcribers[t].pc = "done"
    /\ \A i \in DOMAIN transcription_queue : transcription_queue[i].by # t

====
